---- MODULE Spec2Model ----
(***************************************************************************)
(* A model of main.go of account-importer: one run of the command, from    *)
(* flag parsing to process exit, against a small PostgreSQL database.      *)
(*                                                                         *)
(* Go strings that carry data (identifiers, cell text) are sequences of    *)
(* one-character strings, so "" is << >> and escaping works on characters. *)
(* Table names, column names and SQL texts are the literals of the source. *)
(***************************************************************************)
EXTENDS Integers, Sequences, FiniteSets, TLC

\* ------------------------------------------------------------------ bounds
\* Largest number of rows a child table holds for the dumped user.
MaxRows == 2
\* Largest number of positional arguments on the command line.
MaxArgs == 2

\* ------------------------------------------------------------- identifiers
EmptyString == << >>
U1 == <<"U", "1">>
U2 == <<"U", "2">>
A1 == <<"A", "1">>
UserIds == {U1, U2}
AccountIds == {A1}

\* ------------------------------------------------------ the table queries
\* main.go 57-63: the map literal of table name -> parameterized query.
queries ==
  [accounts         |-> "SELECT * FROM accounts WHERE user_id = $1",
   users            |-> "SELECT * FROM users WHERE id = $1",
   app_auth_tokens  |-> "SELECT * FROM app_auth_tokens WHERE user_id = $1",
   user_identities  |-> "SELECT * FROM user_identities WHERE user_id = $1",
   user_preferences |-> "SELECT * FROM user_preferences WHERE user_id = $1"]

TableNames == DOMAIN queries

\* The two lookups of the identifier resolver (main.go 101 and 114).
AccountLookupSQL == "SELECT user_id FROM accounts WHERE id = $1"
UserLookupSQL == "SELECT id FROM users WHERE id = $1"

\* What the server does with each query text: the table it reads, the column
\* it compares with $1 and the columns it returns ("*" is every column).
QueryPlan(query) ==
  CASE query = queries.accounts ->
         [from |-> "accounts", key |-> "user_id", select |-> "*"]
    [] query = queries.users ->
         [from |-> "users", key |-> "id", select |-> "*"]
    [] query = queries.app_auth_tokens ->
         [from |-> "app_auth_tokens", key |-> "user_id", select |-> "*"]
    [] query = queries.user_identities ->
         [from |-> "user_identities", key |-> "user_id", select |-> "*"]
    [] query = queries.user_preferences ->
         [from |-> "user_preferences", key |-> "user_id", select |-> "*"]
    [] query = AccountLookupSQL ->
         [from |-> "accounts", key |-> "id", select |-> "user_id"]
    [] query = UserLookupSQL ->
         [from |-> "users", key |-> "id", select |-> "id"]

\* ------------------------------------------------------------ byte order
\* The bytes of each table name: Go compares strings bytewise.
NameBytes ==
  [accounts         |-> <<97, 99, 99, 111, 117, 110, 116, 115>>,
   users            |-> <<117, 115, 101, 114, 115>>,
   app_auth_tokens  |-> <<97, 112, 112, 95, 97, 117, 116, 104, 95, 116, 111,
                          107, 101, 110, 115>>,
   user_identities  |-> <<117, 115, 101, 114, 95, 105, 100, 101, 110, 116,
                          105, 116, 105, 101, 115>>,
   user_preferences |-> <<117, 115, 101, 114, 95, 112, 114, 101, 102, 101,
                          114, 101, 110, 99, 101, 115>>]

RECURSIVE BytesLess(_, _)
BytesLess(a, b) ==
  IF a = << >> THEN b # << >>
  ELSE IF b = << >> THEN FALSE
  ELSE IF Head(a) # Head(b) THEN Head(a) < Head(b)
  ELSE BytesLess(Tail(a), Tail(b))

\* Go's string "<" on table names.
StringLess(s, t) == BytesLess(NameBytes[s], NameBytes[t])

RECURSIVE InsertSorted(_, _)
InsertSorted(x, sorted) ==
  IF sorted = << >> THEN <<x>>
  ELSE IF StringLess(x, Head(sorted)) THEN <<x>> \o sorted
  ELSE <<Head(sorted)>> \o InsertSorted(x, Tail(sorted))

RECURSIVE SortedOf(_)
SortedOf(keys) ==
  IF keys = << >> THEN << >>
  ELSE InsertSorted(Head(keys), SortedOf(Tail(keys)))

\* A sort that leaves the slice as it found it.
SortStringsUnsorted(keys) == keys

\* sort.Strings (main.go 70): the keys in ascending byte order.
SortStrings(keys) == SortedOf(keys)

\* The orders in which "for k := range queries" (main.go 67) may yield the
\* keys: Go leaves the iteration order of a map unspecified.
MapIterationOrders ==
  {s \in [1..Cardinality(TableNames) -> TableNames] :
     \A i, j \in DOMAIN s : i # j => s[i] # s[j]}

\* ------------------------------------------------------------ cell values
\* What the driver hands to Scan for one cell (main.go 187-198): nil, bool,
\* []byte, time.Time, or another scalar (int64 here).
NullCell == [kind |-> "nil"]
BoolCell(b) == [kind |-> "bool", b |-> b]
BytesCell(s) == [kind |-> "bytes", s |-> s]
\* A time.Time: calendar date and second of the day on the wall clock of its
\* zone, nanoseconds, and the zone's offset east of UTC in seconds.
TimeCell(date, sec, nsec, offset) ==
  [kind |-> "time", date |-> date, sec |-> sec, nsec |-> nsec, offset |-> offset]
IntCell(n) == [kind |-> "int64", n |-> n]

Digit == <<"0", "1", "2", "3", "4", "5", "6", "7", "8", "9">>

\* %v / %d of a non-negative integer.
RECURSIVE Itoa(_)
Itoa(n) == IF n < 10 THEN <<Digit[n + 1]>> ELSE Itoa(n \div 10) \o <<Digit[(n % 10) + 1]>>

\* Two digits, zero padded (the 15, 04 and 05 of a Go time layout).
TwoDigits(n) == <<Digit[(n \div 10) + 1], Digit[(n % 10) + 1]>>

\* main.go 208-210: strings.ReplaceAll(s, "'", "''").
RECURSIVE escapeSingleQuotes(_)
escapeSingleQuotes(s) ==
  IF s = << >> THEN << >>
  ELSE (IF Head(s) = "'" THEN <<"'", "'">> ELSE <<Head(s)>>)
       \o escapeSingleQuotes(Tail(s))

\* main.go 195: val.UTC().Format("2006-01-02T15:04:05Z"). The values of the
\* model stay within one UTC day, so UTC() moves the clock and not the date;
\* Format drops the nanoseconds.
FormatTimeUTC(t) ==
  LET utc == t.sec - t.offset
  IN t.date \o <<"T">> \o TwoDigits(utc \div 3600) \o <<":">>
       \o TwoDigits((utc \div 60) % 60) \o <<":">> \o TwoDigits(utc % 60) \o <<"Z">>

Quoted(s) == <<"'">> \o s \o <<"'">>

\* main.go 187-198: the type switch that turns one scanned cell into the
\* text of its SQL literal.
FormatValue(raw) ==
  CASE raw.kind = "nil" -> <<"N", "U", "L", "L">>
    [] raw.kind = "bool" ->
         IF raw.b THEN <<"t", "r", "u", "e">> ELSE <<"f", "a", "l", "s", "e">>
    [] raw.kind = "bytes" -> Quoted(escapeSingleQuotes(raw.s))
    [] raw.kind = "time" -> Quoted(FormatTimeUTC(raw))
    [] OTHER -> Quoted(Itoa(raw.n))

\* main.go 185-201: one statement
\*   INSERT INTO "<table>" (<cols joined by ", ">) VALUES (<values joined>);\n
\* kept as its three parts; values has one literal per column (line 185).
InsertStatement(table, cols, rawResult) ==
  [line |-> "insert", table |-> table, cols |-> cols,
   values |-> [i \in 1..Len(cols) |-> FormatValue(rawResult[i])]]

\* ------------------------------------------------------------ the database
ChildTables == {"app_auth_tokens", "user_identities", "user_preferences"}

\* The columns of each table, in the order the server returns them for "*".
Columns ==
  [accounts         |-> <<"id", "user_id">>,
   users            |-> <<"id", "name", "admin", "created_at">>,
   app_auth_tokens  |-> <<"user_id", "token", "uses">>,
   user_identities  |-> <<"user_id", "provider", "verified_at">>,
   user_preferences |-> <<"user_id", "nickname">>]

Date == <<"2", "0", "2", "4", "-", "0", "1", "-", "0", "2">>

UserRow(u) ==
  <<BytesCell(u), BytesCell(<<"O", "'", "N">>), BoolCell(u = U1),
    TimeCell(Date, 3 * 3600 + 4 * 60 + 5, 0, 0)>>

\* owner is a user id, or NullCell for an account whose user_id is NULL.
AccountRow(a, owner) ==
  <<BytesCell(a), IF owner = NullCell THEN NullCell ELSE BytesCell(owner)>>

\* The k-th row of child table t that belongs to user u.
ChildRow(t, u, k) ==
  CASE t = "app_auth_tokens" -> <<BytesCell(u), BytesCell(<<"t">> \o Itoa(k)), IntCell(10 * k)>>
    [] t = "user_identities" ->
         <<BytesCell(u), BytesCell(<<"g">>),
           IF k = 1 THEN TimeCell(Date, 5 * 3600 + 4 * 60 + 5, 999, 2 * 3600)
                    ELSE NullCell>>
    [] t = "user_preferences" -> <<BytesCell(u), IF k = 1 THEN BytesCell(<<"'">>) ELSE BoolCell(FALSE)>>

\* Rows of a child table: n rows of U1 followed by one row of U2.
ChildRows(t, n) == [k \in 1..n |-> ChildRow(t, U1, k)] \o <<ChildRow(t, U2, 1)>>

UserRows(present) ==
  (IF U1 \in present THEN <<UserRow(U1)>> ELSE << >>)
    \o (IF U2 \in present THEN <<UserRow(U2)>> ELSE << >>)

\* The accounts table: empty, or the one account A1 owned by a user id (that
\* need not be a row of users: the schema is not the program's) or by NULL.
AccountTables ==
  {<< >>} \cup {<<AccountRow(A1, u)>> : u \in UserIds} \cup {<<AccountRow(A1, NullCell)>>}

\* The databases a run may meet: any set of users, any accounts table, and
\* for U1 n tokens, MaxRows - n identities and at most one preference row.
Databases ==
  {[accounts         |-> acc,
    users            |-> UserRows(present),
    app_auth_tokens  |-> ChildRows("app_auth_tokens", n),
    user_identities  |-> ChildRows("user_identities", MaxRows - n),
    user_preferences |-> ChildRows("user_preferences", IF n = 0 THEN 0 ELSE 1)] :
     present \in SUBSET UserIds, acc \in AccountTables, n \in 0..MaxRows}

\* The rows the server returns for a query bound to param, as rows of the
\* selected columns, in table order.
ColumnIndex(t, c) == CHOOSE i \in DOMAIN Columns[t] : Columns[t][i] = c

Matches(cell, param) == cell.kind = "bytes" /\ cell.s = param

ResultSet(db, query, param) ==
  LET plan == QueryPlan(query)
      t == plan.from
      hit(row) == Matches(row[ColumnIndex(t, plan.key)], param)
      found == SelectSeq(db[t], hit)
  IN IF plan.select = "*"
       THEN [cols |-> Columns[t], rows |-> found]
       ELSE [cols |-> <<plan.select>>,
             rows |-> [i \in DOMAIN found |-> <<found[i][ColumnIndex(t, plan.select)]>>]]

\* ------------------------------------------------------------------ errors
NoError == "nil"
ErrNoRows == "sql: no rows in result set"
\* Any other error of the driver; the program only prints it.
DriverError == "driver error"
ScanNullError == "converting NULL to string is unsupported"

\* db.QueryRow(query, param).Scan(&s) for a string s (main.go 101, 114):
\* the first row's only column, ErrNoRows without a row, the driver's error
\* when the query fails, and a conversion error for NULL.
QueryRowScan(db, query, param, fails) ==
  LET rs == ResultSet(db, query, param)
  IN IF fails THEN [value |-> EmptyString, err |-> DriverError]
     ELSE IF rs.rows = << >> THEN [value |-> EmptyString, err |-> ErrNoRows]
     ELSE IF rs.rows[1][1].kind = "nil" THEN [value |-> EmptyString, err |-> ScanNullError]
     ELSE [value |-> rs.rows[1][1].s, err |-> NoError]

\* A lookup that answers with the account id it was asked about.
getUserIDFromAccountIDEcho(db, accountID, fails) ==
  LET r == QueryRowScan(db, AccountLookupSQL, accountID, fails)
  IN IF r.err # NoError THEN [userID |-> EmptyString, err |-> r.err]
     ELSE [userID |-> accountID, err |-> NoError]

\* main.go 96-106, after connectDB: the user_id of the account, or the error.
getUserIDFromAccountID(db, accountID, fails) ==
  LET r == QueryRowScan(db, AccountLookupSQL, accountID, fails)
  IN IF r.err # NoError THEN [userID |-> EmptyString, err |-> r.err]
     ELSE [userID |-> r.value, err |-> NoError]

\* main.go 109-119, after connectDB: err == nil, and the error printed on
\* standard output otherwise.
userExists(db, id, fails) ==
  LET r == QueryRowScan(db, UserLookupSQL, id, fails)
  IN [exists  |-> r.err = NoError,
      printed |-> IF r.err # NoError THEN <<[line |-> "error", err |-> r.err]>> ELSE << >>]

\* What can go wrong with a table query of n rows: nothing; db.Query fails;
\* rows.Columns fails; Scan fails on row k; or the result set breaks when
\* only k of the n rows were delivered (rows.Next returns false and
\* rows.Err() holds the error), which ends the loop like its normal end.
NoFault == [at |-> "none", row |-> 0]
DumpFaults(n) ==
  {NoFault, [at |-> "query", row |-> 0], [at |-> "columns", row |-> 0]}
    \cup {[at |-> "scan", row |-> k] : k \in 1..n}
    \cup {[at |-> "next", row |-> k] : k \in 0..(n - 1)}

\* A dump that forgets the first row of the result set.
generateInsertStatementsSkipFirst(db, query, table, param, fault) ==
  LET rs == ResultSet(db, query, param)
      delivered == IF fault.at = "next" THEN SubSeq(rs.rows, 1, fault.row) ELSE rs.rows
  IN IF fault.at \in {"query", "columns", "scan"} THEN [dump |-> << >>, err |-> DriverError]
     ELSE [dump |-> [i \in 1..(Len(delivered) - 1) |->
                       InsertStatement(table, rs.cols, delivered[i + 1])],
           err |-> NoError]

\* main.go 161-205: the block of a table and the error. The loop over
\* rows.Next() ends when Next returns false, at the end of the result set or
\* at an error of the iteration; rows.Err() is not consulted.
generateInsertStatements(db, query, table, param, fault) ==
  LET rs == ResultSet(db, query, param)
      delivered == IF fault.at = "next" THEN SubSeq(rs.rows, 1, fault.row) ELSE rs.rows
  IN IF fault.at = "query" THEN [dump |-> << >>, err |-> DriverError]
     ELSE IF fault.at = "columns" THEN [dump |-> << >>, err |-> DriverError]
     ELSE IF fault.at = "scan" THEN [dump |-> << >>, err |-> DriverError]
     ELSE [dump |-> [i \in 1..Len(delivered) |->
                       InsertStatement(table, rs.cols, delivered[i])],
           err |-> NoError]

\* --------------------------------------------------------------- the run
VARIABLES
  flags,        \* the parsed command line: output, user_id, account_id, args
  environment,  \* the connection settings of the process environment:
                \* "usable", "missing" (neither DATABASE_URL nor the DB_*
                \* settings) or "rejected" (a URL sql.Open does not accept)
  database,     \* the rows of every table
  pc,           \* where main is
  userID,       \* main's userID
  handles,      \* every *sql.DB of the run, in order of sql.Open: "open"/"closed"
  issued,       \* every query sent to the server: sql, param, failed
  sortedKeys,   \* main's sortedKeys
  done,         \* number of tables the loop of main has finished with
  output,       \* main's output builder, as lines
  stdout,       \* standard output, as lines
  logged,       \* the log package's lines on standard error
  files,        \* the files written: name -> lines
  exitCode      \* "running", or the status the process exited with

vars == <<flags, environment, database, pc, userID, handles, issued, sortedKeys,
          done, output, stdout, logged, files, exitCode>>

\* The command lines: each flag unset ("") or set, 0..MaxArgs positionals.
ArgLists == UNION {[1..n -> UserIds] : n \in 0..MaxArgs}

CommandLines ==
  [output : BOOLEAN, user_id : {EmptyString} \cup UserIds,
   account_id : {EmptyString} \cup AccountIds, args : ArgLists]

\* The state when main is entered and flag.Parse() (main.go 25) has run.
Init ==
  /\ flags \in CommandLines
  /\ environment \in {"usable", "missing", "rejected"}
  /\ database \in Databases
  /\ pc = "flags"
  /\ userID = EmptyString
  /\ handles = << >>
  /\ issued = << >>
  /\ sortedKeys = << >>
  /\ done = 0
  /\ output = << >>
  /\ stdout = << >>
  /\ logged = << >>
  /\ files = << >>
  /\ exitCode = "running"

\* The log lines of main.go.
UsageConflictLine == [level |-> "fatal", what |-> "usage: either --user_id or --account_id, or a positional argument"]
UsageLine == [level |-> "fatal", what |-> "usage: main.go [--output=true] [--user_id | --account_id] <user_id>"]
MissingEnvLine == [level |-> "fatal", what |-> "missing required DB environment variables"]
OpenErrorLine == [level |-> "fatal", what |-> "sql.Open error"]
UserNotFoundLine(id) == [level |-> "fatal", what |-> "could not find user_id", id |-> id]
AccountNotFoundLine(id, err) ==
  [level |-> "fatal", what |-> "could not find user_id associated with account_id",
   id |-> id, err |-> err]
SkipLine(table, err) == [level |-> "warning", what |-> "skipping table", table |-> table, err |-> err]
WriteFailedLine == [level |-> "fatal", what |-> "failed to write to file"]

\* log.Fatal: the line, then os.Exit(1); deferred calls do not run.
Fatal(line) ==
  /\ logged' = Append(logged, line)
  /\ pc' = "exited"
  /\ exitCode' = 1

\* A usage check that only looks at the two flags.
UsageConflictFlagsOnly(f) == f.user_id # EmptyString /\ f.account_id # EmptyString

\* main.go 27: the condition of the first usage error.
UsageConflict(f) ==
  \/ (f.user_id # EmptyString /\ f.account_id # EmptyString)
  \/ (Len(f.args) > 0 /\ (f.user_id # EmptyString \/ f.account_id # EmptyString))

\* main.go 27-29.
CheckFlags ==
  /\ pc = "flags"
  /\ IF UsageConflict(flags)
       THEN Fatal(UsageConflictLine)
       ELSE pc' = "resolve" /\ UNCHANGED <<logged, exitCode>>
  /\ UNCHANGED <<flags, environment, database, userID, handles, issued, sortedKeys,
                 done, output, stdout, files>>

\* main.go 123-158: connectDB returns a handle, or is fatal: at line 136
\* without DATABASE_URL and the DB_* settings, at line 154 when sql.Open
\* returns an error. sql.Open sends nothing to the server.
connectDB ==
  CASE environment = "usable" -> [fatal |-> FALSE]
    [] environment = "missing" -> [fatal |-> TRUE, line |-> MissingEnvLine]
    [] environment = "rejected" -> [fatal |-> TRUE, line |-> OpenErrorLine]

\* What a function that opens a handle, defers db.Close() and sends one
\* single-row query leaves behind when it returns (main.go 97-101, 110-114).
Lookup(sql, param, failed) ==
  /\ handles' = Append(handles, "closed")
  /\ issued' = Append(issued, [sql |-> sql, param |-> param, failed |-> failed])

\* main.go 35-39 and 45-49: userID = id; userExists(userID) or fatal.
ResolveUser(id) ==
  /\ userID' = id
  /\ IF connectDB.fatal
       THEN Fatal(connectDB.line) /\ UNCHANGED <<handles, issued, stdout>>
       ELSE \E fails \in BOOLEAN :
              LET r == userExists(database, id, fails)
              IN /\ Lookup(UserLookupSQL, id, fails)
                 /\ stdout' = stdout \o r.printed
                 /\ IF r.exists
                      THEN pc' = "connect" /\ UNCHANGED <<logged, exitCode>>
                      ELSE Fatal(UserNotFoundLine(id))
  /\ UNCHANGED <<flags, environment, database, sortedKeys, done, output, files>>

\* main.go 35-39: case *userIDFlag != "".
ResolveUserIDFlag ==
  /\ pc = "resolve"
  /\ flags.user_id # EmptyString
  /\ ResolveUser(flags.user_id)

\* main.go 40-44: case *accountIDFlag != "".
ResolveAccountIDFlag ==
  /\ pc = "resolve"
  /\ flags.user_id = EmptyString
  /\ flags.account_id # EmptyString
  /\ IF connectDB.fatal
       THEN Fatal(connectDB.line) /\ UNCHANGED <<userID, handles, issued>>
       ELSE \E fails \in BOOLEAN :
              LET r == getUserIDFromAccountID(database, flags.account_id, fails)
              IN /\ Lookup(AccountLookupSQL, flags.account_id, fails)
                 /\ userID' = r.userID
                 /\ IF r.err = NoError
                      THEN pc' = "connect" /\ UNCHANGED <<logged, exitCode>>
                      ELSE Fatal(AccountNotFoundLine(flags.account_id, r.err))
  /\ UNCHANGED <<flags, environment, database, sortedKeys, done, output, stdout, files>>

\* main.go 45-49: case len(flag.Args()) == 1.
ResolvePositional ==
  /\ pc = "resolve"
  /\ flags.user_id = EmptyString
  /\ flags.account_id = EmptyString
  /\ Len(flags.args) = 1
  /\ ResolveUser(flags.args[1])

\* main.go 50-51: default.
ResolveDefault ==
  /\ pc = "resolve"
  /\ flags.user_id = EmptyString
  /\ flags.account_id = EmptyString
  /\ Len(flags.args) # 1
  /\ Fatal(UsageLine)
  /\ UNCHANGED <<flags, environment, database, userID, handles, issued, sortedKeys,
                 done, output, stdout, files>>

\* main.go 54-55: db := connectDB(); defer db.Close().
ConnectMain ==
  /\ pc = "connect"
  /\ IF connectDB.fatal
       THEN Fatal(connectDB.line) /\ UNCHANGED handles
       ELSE /\ handles' = Append(handles, "open")
            /\ pc' = "keys"
            /\ UNCHANGED <<logged, exitCode>>
  /\ UNCHANGED <<flags, environment, database, userID, issued, sortedKeys, done,
                 output, stdout, files>>

\* main.go 65-70: the keys of queries in map order, then sorted.
CollectKeys ==
  /\ pc = "keys"
  /\ \E order \in MapIterationOrders : sortedKeys' = SortStrings(order)
  /\ pc' = "loop"
  /\ UNCHANGED <<flags, environment, database, userID, handles, issued, done,
                 output, stdout, logged, files, exitCode>>

HeaderLine(table) == [line |-> "header", table |-> table]
BlankLine == [line |-> "blank"]

\* A loop body that writes the header before it looks at the error.
AppendBlockHeaderFirst(out, table, res) ==
  IF res.err # NoError THEN out \o <<HeaderLine(table)>>
  ELSE out \o <<HeaderLine(table)>> \o res.dump \o <<BlankLine>>

\* main.go 74-80: what one iteration of the loop makes of output.
AppendBlock(out, table, res) ==
  IF res.err # NoError THEN out
  ELSE out \o <<HeaderLine(table)>> \o res.dump \o <<BlankLine>>

\* main.go 72-81: one iteration of the loop over sortedKeys.
DumpTable ==
  /\ pc = "loop"
  /\ done < Len(sortedKeys)
  /\ LET table == sortedKeys[done + 1]
         n == Len(ResultSet(database, queries[table], userID).rows)
     IN \E fault \in DumpFaults(n) :
          LET res == generateInsertStatements(database, queries[table], table, userID, fault)
          IN /\ issued' = Append(issued, [sql |-> queries[table], param |-> userID,
                                          failed |-> fault # NoFault])
             /\ logged' = IF res.err # NoError
                            THEN Append(logged, SkipLine(table, res.err))
                            ELSE logged
             /\ output' = AppendBlock(output, table, res)
  /\ done' = done + 1
  /\ UNCHANGED <<flags, environment, database, pc, userID, handles, sortedKeys,
                 stdout, files, exitCode>>

\* main.go 83: fmt.Print(output.String()), once the loop is over.
PrintOutput ==
  /\ pc = "loop"
  /\ done = Len(sortedKeys)
  /\ stdout' = stdout \o output
  /\ pc' = "write"
  /\ UNCHANGED <<flags, environment, database, userID, handles, issued, sortedKeys,
                 done, output, logged, files, exitCode>>

\* main.go 86: fmt.Sprintf("user_%s_dump.sql", userID).
FileName(id) == <<"user_", id, "_dump.sql">>

\* A writer that loses the last line of the text.
FileDataTruncated(out) == SubSeq(out, 1, Len(out) - 1)

\* main.go 87: []byte(output.String()).
FileData(out) == out

WroteLine(name) == [line |-> "wrote", name |-> name]

\* main.go 85-92: with --output, os.WriteFile and the line that reports it.
\* A failing os.WriteFile has created nothing, or has left a prefix of the
\* data in the file.
WriteFile ==
  /\ pc = "write"
  /\ IF flags.output
       THEN LET filename == FileName(userID)
                data == FileData(output)
            IN \/ /\ files' = (filename :> data)
                  /\ stdout' = Append(stdout, WroteLine(filename))
                  /\ pc' = "return"
                  /\ UNCHANGED <<logged, exitCode>>
               \/ /\ \/ files' = files
                     \/ \E k \in 0..(Len(data) - 1) : files' = (filename :> SubSeq(data, 1, k))
                  /\ Fatal(WriteFailedLine)
                  /\ UNCHANGED stdout
       ELSE pc' = "return" /\ UNCHANGED <<files, stdout, logged, exitCode>>
  /\ UNCHANGED <<flags, environment, database, userID, handles, issued, sortedKeys,
                 done, output>>

\* main.go 93 with the deferred db.Close() of line 55: main returns.
Return ==
  /\ pc = "return"
  /\ handles' = [handles EXCEPT ![Len(handles)] = "closed"]
  /\ pc' = "exited"
  /\ exitCode' = 0
  /\ UNCHANGED <<flags, environment, database, userID, issued, sortedKeys, done,
                 output, stdout, logged, files>>

Next ==
  \/ CheckFlags
  \/ ResolveUserIDFlag
  \/ ResolveAccountIDFlag
  \/ ResolvePositional
  \/ ResolveDefault
  \/ ConnectMain
  \/ CollectKeys
  \/ DumpTable
  \/ PrintOutput
  \/ WriteFile
  \/ Return

Spec == Init /\ [][Next]_vars

\* ------------------------------------------------------ shared vocabulary
Exited == pc = "exited"
DumpSQL == {queries[t] : t \in TableNames}
IsDumpQuery(q) == q.sql \in DumpSQL
\* The table queries sent so far, in order.
DumpIssued == SelectSeq(issued, IsDumpQuery)
\* The table a table query reads.
TableOf(sql) == CHOOSE t \in TableNames : queries[t] = sql

IsHeader(l) == l.line = "header"
IsInsert(l) == l.line = "insert"
HasHeader(text, t) == \E i \in DOMAIN text : text[i] = HeaderLine(t)
InsertsOf(text, t) == {i \in DOMAIN text : IsInsert(text[i]) /\ text[i].table = t}
Warned(t) == \E i \in DOMAIN logged : logged[i].level = "warning" /\ logged[i].table = t
LastLogged == logged[Len(logged)]

\* The ids of the rows of users, and the accounts rows of an account id.
UsersInDatabase == {database.users[i][1].s : i \in DOMAIN database.users}
AccountRowsOf(a) == {i \in DOMAIN database.accounts : database.accounts[i][1].s = a}

\* How many identifiers the command line supplies.
NumIdentifiers ==
  (IF flags.user_id # EmptyString THEN 1 ELSE 0)
    + (IF flags.account_id # EmptyString THEN 1 ELSE 0) + Len(flags.args)

\* ---------------------------------------------------------------- claims

C2_DumpOnlyForExistingUser ==
  \A i \in DOMAIN issued :
    IsDumpQuery(issued[i]) => issued[i].param \in UsersInDatabase

\* C3: all-or-nothing per table: a table whose query failed at any point
\* has a warning and no INSERT statement in the output, and a table whose
\* block is in the output has every row of its result set serialized.
C3_AllOrNothing ==
  /\ \A i \in DOMAIN issued :
       (IsDumpQuery(issued[i]) /\ issued[i].failed) =>
         /\ Warned(TableOf(issued[i].sql))
         /\ InsertsOf(output, TableOf(issued[i].sql)) = {}
  /\ \A t \in TableNames :
       HasHeader(output, t) =>
         Cardinality(InsertsOf(output, t))
           = Len(ResultSet(database, queries[t], userID).rows)

\* The identifier the command line supplies, and whether the database
\* resolves it: a user id that is a row of users, an account id that has a
\* row in accounts.
SuppliedId ==
  IF flags.user_id # EmptyString THEN flags.user_id
  ELSE IF flags.account_id # EmptyString THEN flags.account_id
  ELSE flags.args[1]
ByAccount == flags.user_id = EmptyString /\ flags.account_id # EmptyString
SuppliedIdKnown ==
  IF ByAccount THEN AccountRowsOf(SuppliedId) # {} ELSE SuppliedId \in UsersInDatabase
\* The user the supplied identifier stands for.
CanonicalUser ==
  IF ByAccount
    THEN database.accounts[CHOOSE i \in AccountRowsOf(SuppliedId) : TRUE][2].s
    ELSE SuppliedId
NotFoundNaming(l, id) ==
  /\ l.level = "fatal"
  /\ l.what \in {"could not find user_id", "could not find user_id associated with account_id"}
  /\ l.id = id

\* C4 as written: with one identifier supplied, every table query is bound
\* to the canonical user; and when the identifier is unknown to the database
\* no table query is sent and the run ends with status 1 in a not-found line
\* naming the identifier.
C4_ResolutionAsClaimed ==
  NumIdentifiers = 1 =>
    /\ \A i \in DOMAIN issued :
         IsDumpQuery(issued[i]) => SuppliedIdKnown /\ issued[i].param = CanonicalUser
    /\ (Exited /\ ~SuppliedIdKnown) =>
         exitCode = 1 /\ NotFoundNaming(LastLogged, SuppliedId)

\* C4, amended: as C4, except that a run in which connectDB cannot produce
\* a handle (settings missing, or rejected by sql.Open) ends in connectDB's
\* own fatal line instead of the not-found line (still with status 1 and
\* without any table query).
\* A run that ends in the not-found line although the identifier is known
\* is one whose lookup query failed or met a NULL user_id.
C4_Resolution ==
  NumIdentifiers = 1 =>
    /\ \A i \in DOMAIN issued :
         IsDumpQuery(issued[i]) =>
           SuppliedIdKnown /\ issued[i].param = CanonicalUser /\ userID = CanonicalUser
    /\ (Exited /\ ~SuppliedIdKnown) =>
         /\ exitCode = 1
         /\ DumpIssued = << >>
         /\ IF connectDB.fatal THEN LastLogged = connectDB.line
                               ELSE NotFoundNaming(LastLogged, SuppliedId)
    /\ (Exited /\ SuppliedIdKnown /\ ~connectDB.fatal /\ DumpIssued = << >>) =>
         /\ NotFoundNaming(LastLogged, SuppliedId)
         /\ issued[1].failed \/ (ByAccount /\ LastLogged.err = ScanNullError)

\* An account id mapped to a user different from every flag value has been
\* dumped, to the end of the run.
C4_Witness ==
  /\ Exited
  /\ exitCode = 0
  /\ ByAccount
  /\ CanonicalUser = U2
  /\ Len(DumpIssued) = Cardinality(TableNames)
  /\ \A i \in DOMAIN DumpIssued : DumpIssued[i].param = U2

\* The tables the loop of main has finished with.
Processed == {sortedKeys[i] : i \in 1..done}
IsPrefix(a, b) == Len(a) <= Len(b) /\ SubSeq(b, 1, Len(a)) = a

\* C5, in every state: a table the loop has finished with has either its
\* header in the output or a warning naming it, never both and never
\* neither; a warned table has no line at all in the output; the loop can
\* always go on to the next table; and the output is printed only when all
\* the tables are done.
C5_StateOfLoop ==
  /\ \A t \in Processed : HasHeader(output, t) # Warned(t)
  /\ \A t \in TableNames :
       Warned(t) => \A i \in DOMAIN output :
                      output[i].line \in {"header", "insert"} => output[i].table # t
  /\ \A t \in TableNames \ Processed : ~HasHeader(output, t) /\ ~Warned(t)
  /\ (pc = "loop" /\ done < Len(sortedKeys)) => ENABLED DumpTable
  /\ (pc \in {"write", "return"} \/ (Exited /\ exitCode = 0)) => Processed = TableNames

\* C5, in every step: a step that logs a warning leaves the output as it
\* was, and no step changes the text already accumulated.
C5_StepOfLoop ==
  /\ IsPrefix(output, output')
  /\ (Len(logged') > Len(logged) /\ logged'[Len(logged')].level = "warning") =>
       output' = output

\* C5: a table whose dump returns an error is skipped with a warning naming
\* it, without a header or a statement in the output and without a change to
\* the text of the earlier tables, and the remaining tables are processed:
\* at the end every table has its block in the output or a warning.
C5_SkipWithWarning == [](C5_StateOfLoop) /\ [][C5_StepOfLoop]_vars

\* A run has ended well in which the first table was skipped with a warning
\* and the last table has its block in the output.
C5_Witness ==
  /\ Exited
  /\ exitCode = 0
  /\ Warned("accounts")
  /\ HasHeader(output, "users")
  /\ InsertsOf(output, "users") # {}

\* C6 as written: after a successful run with --output, the file
\* user_<user_id>_dump.sql holds exactly what standard output received; and
\* without --output standard output received the generated text.
C6_FileEqualsStdout ==
  (Exited /\ exitCode = 0) =>
    IF flags.output
      THEN FileName(userID) \in DOMAIN files /\ files[FileName(userID)] = stdout
      ELSE stdout = output

\* C6, amended: after a successful run with --output, the file
\* user_<user_id>_dump.sql holds exactly the generated text, and standard
\* output received that text followed by the one line that reports the file;
\* without --output standard output received exactly the generated text and
\* no file was written.
C6_FileEqualsGeneratedText ==
  (Exited /\ exitCode = 0) =>
    IF flags.output
      THEN /\ files = (FileName(userID) :> output)
           /\ stdout = output \o <<WroteLine(FileName(userID))>>
      ELSE stdout = output /\ files = << >>

\* A successful run with --output whose text holds a statement.
C6_Witness ==
  /\ Exited
  /\ exitCode = 0
  /\ flags.output
  /\ \E i \in DOMAIN output : IsInsert(output[i])
  /\ FileName(userID) \in DOMAIN files

\* C7: a run given --user_id and a positional argument (and no
\* --account_id) resolves the --user_id value: when it has ended, main's
\* userID is that value and the run did not end in the usage error.
C7_UserIdFlagPrecedence ==
  (Exited /\ flags.user_id # EmptyString /\ flags.account_id = EmptyString
     /\ Len(flags.args) > 0) =>
    /\ userID = flags.user_id
    /\ UsageConflictLine \notin {logged[i] : i \in DOMAIN logged}

\* The order the claim names.
ExpectedOrder ==
  <<"accounts", "app_auth_tokens", "user_identities", "user_preferences", "users">>
HeaderTables == SelectSeq(output, IsHeader)

\* C8: whatever order the map yields its keys in and whichever tables fail,
\* the loop runs over accounts, app_auth_tokens, user_identities,
\* user_preferences, users: the table queries sent so far are the queries
\* of the first tables of that order, one each; the headers in the output
\* ascend in byte order of the table name and every statement stands under
\* the header of its table; and a run that got past the resolver does not
\* end before all five queries were sent.
C8_FixedTableOrder ==
  /\ pc \in {"loop", "write", "return"} => sortedKeys = ExpectedOrder
  /\ Len(DumpIssued) = done
  /\ \A i \in DOMAIN DumpIssued : DumpIssued[i].sql = queries[ExpectedOrder[i]]
  /\ \A i, j \in DOMAIN HeaderTables :
       i < j => StringLess(HeaderTables[i].table, HeaderTables[j].table)
  /\ \A i \in DOMAIN output :
       IsInsert(output[i]) =>
         \E h \in 1..(i - 1) :
           /\ output[h] = HeaderLine(output[i].table)
           /\ \A k \in (h + 1)..(i - 1) : IsInsert(output[k])
  /\ (pc \in {"write", "return"} \/ (Exited /\ sortedKeys # << >>)) =>
       Len(DumpIssued) = Cardinality(TableNames)

\* A run has ended in which a table in the middle failed and the tables on
\* both sides of it have their blocks in the output.
C8_Witness ==
  /\ Exited
  /\ exitCode = 0
  /\ Warned("user_identities")
  /\ Len(HeaderTables) = Cardinality(TableNames) - 1

\* The rows of table t that the query of t returns for main's userID, read
\* off the database: the rows whose key column holds the user id.
KeyColumn(t) == IF t = "users" THEN 1 ELSE IF t = "accounts" THEN 2 ELSE 1
MatchingRows(t) ==
  LET hit(row) == row[KeyColumn(t)] = BytesCell(userID) IN SelectSeq(database[t], hit)
\* The statements of table t in the output, in order.
BlockOf(t) == LET mine(l) == IsInsert(l) /\ l.table = t IN SelectSeq(output, mine)

\* C9: for every table query that completed without error, the block in the
\* output has its header and exactly one statement per row of the result
\* set, in result order; each statement names the table, lists the table's
\* M columns once, in order, and has exactly M literals, the k-th being the
\* literal of the row's k-th cell. With no row the block is the header with
\* no statement, and no warning is logged.
C9_OneStatementPerRow ==
  \A q \in DOMAIN DumpIssued :
    ~DumpIssued[q].failed =>
      LET t == TableOf(DumpIssued[q].sql)
          rows == MatchingRows(t)
          block == BlockOf(t)
      IN /\ HasHeader(output, t)
         /\ ~Warned(t)
         /\ Len(block) = Len(rows)
         /\ \A r \in DOMAIN block :
              /\ block[r].table = t
              /\ block[r].cols = Columns[t]
              /\ Len(block[r].values) = Len(Columns[t])
              /\ \A k \in DOMAIN block[r].values :
                   block[r].values[k] = FormatValue(rows[r][k])

\* The loop is over; one table gave MaxRows rows and MaxRows statements,
\* in a run where another gave no row and has its header alone.
C9_Witness ==
  /\ pc = "write"
  /\ \A q \in DOMAIN DumpIssued : ~DumpIssued[q].failed
  /\ \E t \in TableNames : Len(MatchingRows(t)) = MaxRows /\ Len(BlockOf(t)) = MaxRows
  /\ \E t \in TableNames : Len(MatchingRows(t)) = 0 /\ HasHeader(output, t)

\* C10: when the process has exited, the run has opened one database
\* handle at most and every handle it opened is closed.
C10_OneHandleClosedAtExit ==
  Exited =>
    /\ Len(handles) <= 1
    /\ \A i \in DOMAIN handles : handles[i] = "closed"

====
